---- MODULE Spec2Model ----
(***************************************************************************)
(* Campaign engine (src/CampaignManager.js) driven by the device registry  *)
(* of DeviceManager (src/unnamed/part_003).                                *)
(*                                                                         *)
(* The program runs on one JavaScript event loop: a handler runs to its    *)
(* end or to its first await without any other handler in between.  Each   *)
(* action below is one such run.  processCampaign has one await (the send),*)
(* so a tick is two runs: ProcessCampaign up to the send, ResumeTick from  *)
(* the acknowledgement (or failure) of the send to the end.                *)
(*                                                                         *)
(* Time is abstracted: a pending timer may fire at any moment.  Wall-clock *)
(* stamps (createdAt, updatedAt, lastProcessedAt, deviceLastUsed) and the  *)
(* socket notifications are not state of the model.                        *)
(***************************************************************************)
EXTENDS Integers, Sequences, FiniteSets, Bags, TLC

\* ------------------------------------------------------------------ bounds
MaxRecipients == 2      \* longest recipient list handed to createCampaign
MaxHistory == 2         \* message records kept over all users; also the cap of progress.failed
MaxChains == 2          \* of one campaign: ticks awaiting their send, plus pending timers
                        \* that campaignTimers does not hold
MaxSelections == 6      \* selections made from one device list
MaxStartCursor == 2     \* largest cursor the selections start from
MaxThreshold == 3       \* largest messagesPerDevice of a custom-count campaign
DrawDenominator == 65536    \* a draw of Math.random() is n/DrawDenominator, 0 <= n < DrawDenominator
RandomResolution == 64      \* draws taken: RandomResolution evenly spaced ones, and the largest
MaxInstances == 2       \* sessions created under one session id
MaxTokens == 2          \* pairing tokens the transport issues

\* ------------------------------------------------------------------ delays (ms)
RetryNoDeviceDelay == 30000     \* scheduleRetry when no eligible device is ready
RetryErrorDelay == 60000        \* scheduleRetry from the outer catch of processCampaign
DefaultDelay == 2000            \* calculateMessageDelay when options.delay names no other
CreatedDefaultDelay == 2000     \* createCampaign when campaignData.delay is falsy
FastMinDelay == 2000            \* random-fast
FastMaxDelay == 5000
NormalMinDelay == 5000          \* random-normal
NormalMaxDelay == 10000
SafeMinDelay == 10000           \* random-safe
SafeMaxDelay == 20000
MsPerSecond == 1000             \* customMinDelay and customMaxDelay are seconds
RestartDelay == 1000            \* restartCampaign's timer
RecoveryDelay == 5000           \* startCampaignRecovery's timer

\* ------------------------------------------------------------------ inputs
Users == {"u1", "u2"}
CampaignIds == {"c1", "c2"}
Devices == {"d1", "d2"}
\* Order in which the registry lists devices (insertion order of userDevices).
DeviceOrder == <<"d1", "d2">>
\* The user on whose behalf a device identifier is created.
DeviceUser == [d \in Devices |-> "u1"]
\* campaignData.selectedDevices: null (no subset), or a list of device identifiers
NoSelection == [given |-> FALSE, ids |-> {}]

NoDevice == "null"
NoTimer == "none"

VARIABLES
    devices,          \* DeviceManager.devices: id -> device object (owner, status, readiness flag)
    deviceTimers,     \* per device identifier, the kinds of timer pending for it
    rotation,         \* a rotation state under consecutive selections from one device list
    sessions,         \* the legacy SessionManager: its sessions, sessionTimeouts and pending timers
    issuedDevices,    \* device identifiers uuidv4 has handed out
    issuedCampaigns,  \* campaign identifiers uuidv4 has handed out
    campaigns,        \* the campaign objects, by id (also objects no longer in the map)
    inMap,            \* keys of CampaignManager.campaigns
    userCampaigns,    \* CampaignManager.userCampaigns
    campaignTimers,   \* CampaignManager.campaignTimers: "live" (pending), "dead" (fired), or NoTimer
    looseTimers,      \* pending processCampaign timers that campaignTimers does not hold
    inflight,         \* per campaign, the ticks suspended at `await sendMessage`
    messageHistory,   \* CampaignManager.messageHistory
    campaignsFile,    \* campaigns.json
    messagesFile      \* messages.json

vars == <<devices, deviceTimers, rotation, sessions, issuedDevices, issuedCampaigns, campaigns, inMap, userCampaigns, campaignTimers,
          looseTimers, inflight, messageHistory, campaignsFile, messagesFile>>

engineVars == <<campaigns, inMap, userCampaigns, campaignTimers, looseTimers, inflight,
                messageHistory, campaignsFile, messagesFile>>

\* The engine's state as one value, so that a handler can call another.
\* `scheduled` is not state: it collects the timers (campaign, delay) the
\* running handler has set, and is empty when a handler starts.
Engine ==
    [campaigns |-> campaigns, inMap |-> inMap, userCampaigns |-> userCampaigns,
     campaignTimers |-> campaignTimers, looseTimers |-> looseTimers, inflight |-> inflight,
     messageHistory |-> messageHistory, campaignsFile |-> campaignsFile,
     messagesFile |-> messagesFile, scheduled |-> {}]

SetEngine(E) ==
    /\ campaigns' = E.campaigns
    /\ inMap' = E.inMap
    /\ userCampaigns' = E.userCampaigns
    /\ campaignTimers' = E.campaignTimers
    /\ looseTimers' = E.looseTimers
    /\ inflight' = E.inflight
    /\ messageHistory' = E.messageHistory
    /\ campaignsFile' = E.campaignsFile
    /\ messagesFile' = E.messagesFile

\* ------------------------------------------------------------------ helpers
EmptyMap == [d \in {} |-> 0]

MapGet(m, d) == IF d \in DOMAIN m THEN m[d] ELSE 0

MapSet(m, d, v) == [x \in (DOMAIN m) \cup {d} |-> IF x = d THEN v ELSE m[x]]

RECURSIVE TotalRecords(_, _)
TotalRecords(h, us) ==
    IF us = {} THEN 0
    ELSE LET u == CHOOSE x \in us : TRUE
         IN Len(h[u]) + TotalRecords(h, us \ {u})

\* The state stays inside the bounds of the model.
Bounded(E) ==
    /\ TotalRecords(E.messageHistory, Users) <= MaxHistory
    /\ \A c \in CampaignIds :
        /\ E.looseTimers[c] + BagCardinality(E.inflight[c]) <= MaxChains
        /\ c \in DOMAIN E.campaigns => E.campaigns[c].progress.failed <= MaxHistory

\* ------------------------------------------------------------------ devices
\* getUserDevices: the user's devices, in registry order.
GetDevicesOfAnyUser(userId) ==
    SelectSeq(DeviceOrder, LAMBDA d : d \in DOMAIN devices)

GetUserDevices(userId) ==
    SelectSeq(DeviceOrder, LAMBDA d : d \in DOMAIN devices /\ devices[d].userId = userId)

\* getReadyDevices
GetReadyDevices(userId) ==
    SelectSeq(GetUserDevices(userId), LAMBDA d : devices[d].isReady)

\* sendMessage's entry check: the device is in the registry and ready.
DeviceCanSend(d) == d \in DOMAIN devices /\ devices[d].isReady

\* ------------------------------------------------------------------ persistence
\* A Map, as `new Map()` makes it.
NewMap == [isMap |-> TRUE, entries |-> EmptyMap]

\* Object.fromEntries(map): saveCampaigns copies the campaign shallowly, so the
\* conversion also replaces the Map held by the campaign object in memory.
ToPlainObject(usage) == [isMap |-> FALSE, entries |-> usage.entries]

\* new Map(Object.entries(obj)) in loadCampaigns.
ToMap(usage) == [isMap |-> TRUE, entries |-> usage.entries]

\* The campaign object after saveCampaigns has been over it.
Converted(campaign) ==
    [campaign EXCEPT !.rotationState.deviceUsage = ToPlainObject(@)]

\* JSON.stringify writes a Date as a string.
StampWritten(stamp) == IF stamp = "Date" THEN "string" ELSE stamp

\* The campaign as campaigns.json holds it.
Serialized(campaign) ==
    [Converted(campaign) EXCEPT !.createdAt = StampWritten(@),
                                !.startedAt = StampWritten(@)]

\* rotationState.currentDevice holds a device object of the registry, client
\* included; whether JSON.stringify can write such an object is the transport
\* library's matter, so a save made while a device is pinned may throw (and is
\* then caught and logged by saveCampaigns).
StringifyMayThrow(E) ==
    \E c \in E.inMap : E.campaigns[c].rotationState.currentDevice # NoDevice

\* saveCampaigns: the possible outcomes.
SaveCampaigns(E) ==
    LET converted == [c \in DOMAIN E.campaigns |->
                        IF c \in E.inMap THEN Converted(E.campaigns[c]) ELSE E.campaigns[c]]
        E1 == [E EXCEPT !.campaigns = converted]
        written == [E1 EXCEPT !.campaignsFile = [c \in E.inMap |-> Serialized(E.campaigns[c])]]
    IN {written} \cup (IF StringifyMayThrow(E) THEN {E1} ELSE {})

\* saveMessages
SaveMessages(E) == [E EXCEPT !.messagesFile = E.messageHistory]

\* new Date() of a message record: later than the time of every stored record.
Now(E) ==
    LET times == UNION {{E.messageHistory[u][i].timestamp : i \in DOMAIN E.messageHistory[u]} :
                            u \in Users}
    IN  IF times = {} THEN 1
        ELSE 1 + CHOOSE t \in times : \A x \in times : x <= t

\* messages.sort((a, b) => new Date(b.timestamp) - new Date(a.timestamp)): the
\* array itself, its records ordered newest first.
SortedNewestFirst(h) ==
    CHOOSE s \in [DOMAIN h -> {h[i] : i \in DOMAIN h}] :
        /\ \A i \in DOMAIN h : \E j \in DOMAIN h : s[j] = h[i]
        /\ \A i, j \in DOMAIN h : i < j => s[i].timestamp >= s[j].timestamp

StoreMessage(E, messageData) ==
    SaveMessages([E EXCEPT !.messageHistory[messageData.userId] = Append(@, messageData)])

\* The load that starts every stored campaign over.
LoadedFromStart(stored) ==
    [stored EXCEPT !.rotationState.deviceUsage = ToMap(@),
                   !.progress.currentIndex = 0]

\* loadCampaigns: one stored campaign, its usage counters restored as a Map.
Loaded(stored) ==
    [stored EXCEPT !.rotationState.deviceUsage = ToMap(@)]

\* ------------------------------------------------------------------ timers
\* scheduleNextMessage (scheduleRetry calls it): a new timer is recorded in
\* campaignTimers; a timer recorded there that is still pending is not
\* cleared, it stays pending without a record.
ScheduleNextMessage(E, c, delay) ==
    [E EXCEPT !.looseTimers[c] = IF E.campaignTimers[c] = "live" THEN @ + 1 ELSE @,
              !.campaignTimers[c] = "live",
              !.scheduled = @ \cup {[campaign |-> c, delay |-> delay]}]

\* if (campaignTimers.has(id)) { clearTimeout(...); campaignTimers.delete(id) }
ClearTimer(E, c) == [E EXCEPT !.campaignTimers[c] = NoTimer]

\* setTimeout(() => processCampaign(id), ...) whose handle is not kept
\* (restartCampaign, startCampaignRecovery).
ScheduleLoose(E, c, delay) ==
    [E EXCEPT !.looseTimers[c] = @ + 1,
              !.scheduled = @ \cup {[campaign |-> c, delay |-> delay]}]

\* The numerators of the draws of Math.random(), a number of [0, 1): 0, the
\* evenly spaced ones, and the largest below 1.
RandomDraws ==
    {i * (DrawDenominator \div RandomResolution) : i \in 0..(RandomResolution - 1)}
        \cup {DrawDenominator - 1}

\* Math.round in the place of Math.floor.
RandomBetweenRounded(lo, hi) ==
    {(2 * n * (hi - lo + 1) + DrawDenominator) \div (2 * DrawDenominator) + lo :
        n \in RandomDraws}

\* Math.floor(Math.random() * (hi - lo + 1)) + lo, for every draw.
RandomBetween(lo, hi) ==
    {(n * (hi - lo + 1)) \div DrawDenominator + lo : n \in RandomDraws}

\* parseInt(delayOption) || 2000: the number itself unless it is 0; a policy
\* name parses to NaN.
ParsedOrDefault(delay) ==
    IF delay.kind = "number" /\ delay.value # 0 THEN delay.value ELSE DefaultDelay

\* calculateMessageDelay: the delays it can return.
CalculateMessageDelay(options) ==
    CASE options.delay.kind = "random-fast" -> RandomBetween(FastMinDelay, FastMaxDelay)
      [] options.delay.kind = "random-normal" -> RandomBetween(NormalMinDelay, NormalMaxDelay)
      [] options.delay.kind = "random-safe" -> RandomBetween(SafeMinDelay, SafeMaxDelay)
      [] options.delay.kind = "custom" /\ options.customMinDelay # 0
                                      /\ options.customMaxDelay # 0 ->
            RandomBetween(options.customMinDelay * MsPerSecond,
                          options.customMaxDelay * MsPerSecond)
      [] OTHER -> {ParsedOrDefault(options.delay)}

\* ------------------------------------------------------------------ rotation
\* devices[i] of a JavaScript array held as a sequence
At(devs, i) == devs[i + 1]

\* Round-robin whose cursor stays where it is.
SelectRoundRobinStuck(devs, rs) ==
    {[device |-> At(devs, rs.deviceIndex % Len(devs)), rs |-> rs]}

SelectRoundRobin(devs, rs) ==
    {[device |-> At(devs, rs.deviceIndex % Len(devs)),
      rs |-> [rs EXCEPT !.deviceIndex = @ + 1]]}

\* Custom-count that switches one selection late.
SelectCustomCountLate(devs, rs, messagesPerDevice) ==
    LET switch == rs.currentDevice = NoDevice
                    \/ rs.currentDeviceMessageCount > messagesPerDevice
        idx == (rs.deviceIndex + 1) % Len(devs)
        rs1 == IF switch
               THEN [rs EXCEPT !.deviceIndex = idx,
                               !.currentDevice = At(devs, idx),
                               !.currentDeviceMessageCount = 0]
               ELSE rs
        rs2 == [rs1 EXCEPT !.currentDeviceMessageCount = @ + 1]
    IN {[device |-> rs2.currentDevice, rs |-> rs2]}

SelectCustomCount(devs, rs, messagesPerDevice) ==
    LET switch == rs.currentDevice = NoDevice
                    \/ rs.currentDeviceMessageCount >= messagesPerDevice
        idx == (rs.deviceIndex + 1) % Len(devs)
        rs1 == IF switch
               THEN [rs EXCEPT !.deviceIndex = idx,
                               !.currentDevice = At(devs, idx),
                               !.currentDeviceMessageCount = 0]
               ELSE rs
        rs2 == [rs1 EXCEPT !.currentDeviceMessageCount = @ + 1]
    IN {[device |-> rs2.currentDevice, rs |-> rs2]}

SelectRandom(devs, rs) ==
    {[device |-> devs[i], rs |-> rs] : i \in 1..Len(devs)}

SelectLoadBalanced(devs, rs) ==
    LET rs1 == IF rs.deviceUsage.isMap THEN rs ELSE [rs EXCEPT !.deviceUsage = NewMap]
        usage(d) == MapGet(rs1.deviceUsage.entries, d)
        \* the first device whose usage no other device undercuts
        best == CHOOSE i \in 1..Len(devs) :
                    /\ \A j \in 1..Len(devs) : usage(devs[i]) <= usage(devs[j])
                    /\ \A j \in 1..(i - 1) : usage(devs[j]) > usage(devs[i])
    IN {[device |-> devs[best], rs |-> rs1]}

\* selectDeviceByStrategy: the possible (device, rotation state) results
SelectDeviceByStrategy(devs, rs, options) ==
    CASE options.rotationStrategy = "custom-count" ->
            SelectCustomCount(devs, rs, options.messagesPerDevice)
      [] options.rotationStrategy = "round-robin" -> SelectRoundRobin(devs, rs)
      [] options.rotationStrategy = "random" -> SelectRandom(devs, rs)
      [] options.rotationStrategy = "load-balanced" -> SelectLoadBalanced(devs, rs)
      [] OTHER -> SelectRoundRobin(devs, rs)

\* updateRotationState
UpdateRotationState(rs, deviceId) ==
    LET usage == IF rs.deviceUsage.isMap THEN rs.deviceUsage ELSE NewMap
    IN [rs EXCEPT !.deviceUsage =
            [usage EXCEPT !.entries = MapSet(@, deviceId, MapGet(@, deviceId) + 1)]]

\* ------------------------------------------------------------------ campaign engine
\* The campaign object createCampaign builds.  recipients is the length of the
\* recipient list; a recipient is known by its index in it.  messageIsText says
\* whether campaignData.message is a string (personalizeMessage calls
\* message.replace, which throws on anything else).  createdAt and startedAt
\* are kept by their kind: a Date object, the string a Date is stored as, or
\* (startedAt, which only restartCampaign sets) unset.
\* campaignData.delay, customMinDelay and customMaxDelay: undefined when the
\* caller gave none.  A delay is a number or the name of a policy; seconds that
\* are undefined are 0 here (both are falsy where they are read).
Undefined == [kind |-> "undefined", value |-> 0]

DelayOf(data) == IF "delay" \in DOMAIN data THEN data.delay ELSE Undefined

SecondsOf(data, field) == IF field \in DOMAIN data THEN data[field] ELSE 0

\* campaignData.delay || 2000
CreatedDelay(delay) ==
    IF delay.kind = "undefined" \/ (delay.kind = "number" /\ delay.value = 0)
    THEN [kind |-> "number", value |-> CreatedDefaultDelay]
    ELSE delay

NewCampaign(userId, data) ==
    [userId |-> userId,
     messageIsText |-> data.messageIsText,
     recipients |-> data.recipients,
     options |-> [delay |-> CreatedDelay(DelayOf(data)),
                  customMinDelay |-> SecondsOf(data, "customMinDelay"),
                  customMaxDelay |-> SecondsOf(data, "customMaxDelay"),
                  rotationStrategy |-> data.rotationStrategy,
                  selectedDevices |-> data.selectedDevices,
                  messagesPerDevice |-> data.messagesPerDevice],
     status |-> "active",
     progress |-> [total |-> data.recipients, sent |-> 0, failed |-> 0, currentIndex |-> 0],
     rotationState |-> [deviceIndex |-> 0, deviceUsage |-> NewMap,
                        currentDeviceMessageCount |-> 0, currentDevice |-> NoDevice],
     createdAt |-> "Date",
     startedAt |-> "unset"]

\* The guard without its comparison of the owner with the caller.
OwnedByAnyone(E, c, userId) == c \in E.inMap

\* The guard of stopCampaign and restartCampaign: the campaign is in the map
\* and belongs to the caller.
OwnedBy(E, c, userId) == c \in E.inMap /\ E.campaigns[c].userId = userId

\* completeCampaign
CompleteCampaign(E, c) ==
    IF c \notin E.inMap THEN {E}
    ELSE SaveCampaigns(ClearTimer([E EXCEPT !.campaigns[c].status = "completed"], c))

\* The message record storeMessage is given by a tick; only a failed record
\* carries an error (error.message).
MessageRecord(campaign, c, tick, status, now) ==
    [userId |-> campaign.userId, campaignId |-> c, recipient |-> tick.ri,
     deviceId |-> IF status = "sent" THEN tick.device ELSE NoDevice, status |-> status,
     error |-> IF status = "failed" THEN "error.message" ELSE "absent",
     timestamp |-> now]

\* The outcome of a send, with the failed send counted but not stored.
RecordOutcomeSentOnly(E, c, tick, ok) ==
    IF ok
    THEN StoreMessage([E EXCEPT !.campaigns[c].progress.sent = @ + 1,
                                !.campaigns[c].rotationState =
                                    UpdateRotationState(@, tick.device)],
                      MessageRecord(E.campaigns[c], c, tick, "sent", Now(E)))
    ELSE [E EXCEPT !.campaigns[c].progress.failed = @ + 1]

\* What a tick does with the outcome of its send (success or failure).
RecordOutcome(E, c, tick, ok) ==
    IF ok
    THEN StoreMessage([E EXCEPT !.campaigns[c].progress.sent = @ + 1,
                                !.campaigns[c].rotationState =
                                    UpdateRotationState(@, tick.device)],
                      MessageRecord(E.campaigns[c], c, tick, "sent", Now(E)))
    ELSE StoreMessage([E EXCEPT !.campaigns[c].progress.failed = @ + 1],
                      MessageRecord(E.campaigns[c], c, tick, "failed", Now(E)))

\* The step a tick takes once its recipient is settled: the next timer, or completion.
AfterRecipient(E, c) ==
    IF E.campaigns[c].progress.currentIndex >= E.campaigns[c].recipients
    THEN CompleteCampaign(E, c)
    ELSE {ScheduleNextMessage(E, c, delay) :
            delay \in CalculateMessageDelay(E.campaigns[c].options)}

\* The tick that leaves a recipient whose send failed to be tried again.
ResumeTickRetryingFailure(E, c, tick, ok) ==
    LET E1 == RecordOutcome(E, c, tick, ok)
        E2 == IF ok THEN [E1 EXCEPT !.campaigns[c].progress.currentIndex = @ + 1] ELSE E1
    IN UNION {AfterRecipient(E3, c) : E3 \in SaveCampaigns(E2)}

\* processCampaign from the return of `await sendMessage` to its end.  The
\* tick works on the campaign object it read when it started.
ResumeTick(E, c, tick, ok) ==
    LET E1 == RecordOutcome(E, c, tick, ok)
        E2 == [E1 EXCEPT !.campaigns[c].progress.currentIndex = @ + 1]
    IN UNION {AfterRecipient(E3, c) : E3 \in SaveCampaigns(E2)}

\* processCampaign from the choice of the device to the await: personalize,
\* then sendMessage, which throws at once for a device it does not hold ready.
AttemptSend(E, c, device) ==
    LET campaign == E.campaigns[c]
        tick == [ri |-> campaign.progress.currentIndex, device |-> device]
    IN IF ~campaign.messageIsText
       \* personalizeMessage throws; the handler of the send counts a failure and
       \* throws again while it builds the failed record; the outer handler retries.
       THEN {ScheduleNextMessage([E EXCEPT !.campaigns[c].progress.failed = @ + 1], c,
                                 RetryErrorDelay)}
       ELSE IF DeviceCanSend(device)
            THEN {[E EXCEPT !.inflight[c] = @ (+) SetToBag({tick})]}
            ELSE ResumeTick(E, c, tick, FALSE)

\* The filter without the campaign's subset.
ReadyDevicesOfOwner(campaign) == GetReadyDevices(campaign.userId)

\* Devices of the owner that are ready and inside the campaign's subset.
EligibleDevices(campaign) ==
    LET ready == GetReadyDevices(campaign.userId)
    IN IF campaign.options.selectedDevices.given
       THEN SelectSeq(ready, LAMBDA d : d \in campaign.options.selectedDevices.ids)
       ELSE ready

\* processCampaign up to its await (or to its end, when it has none).
ProcessCampaign(E, c) ==
    IF c \notin E.inMap \/ E.campaigns[c].status # "active" THEN {E}
    ELSE
        LET campaign == E.campaigns[c]
            rs0 == IF campaign.rotationState.deviceUsage.isMap
                   THEN campaign.rotationState
                   ELSE [campaign.rotationState EXCEPT !.deviceUsage = NewMap]
            selected == EligibleDevices(campaign)
            rs1 == IF DOMAIN rs0.deviceUsage.entries = {}
                   THEN [rs0 EXCEPT !.deviceUsage.entries =
                            [d \in {selected[i] : i \in 1..Len(selected)} |-> 0]]
                   ELSE rs0
        IN IF selected = <<>>
           THEN {ScheduleNextMessage([E EXCEPT !.campaigns[c].rotationState = rs0], c,
                                     RetryNoDeviceDelay)}
           ELSE IF campaign.progress.currentIndex < campaign.recipients
                THEN UNION {AttemptSend([E EXCEPT !.campaigns[c].rotationState = o.rs],
                                        c, o.device) :
                            o \in SelectDeviceByStrategy(selected, rs1, campaign.options)}
                ELSE {[E EXCEPT !.campaigns[c].rotationState = rs1]}

\* createCampaign
CreateCampaignCall(E, c, userId, data) ==
    LET E1 == [E EXCEPT
                !.campaigns = [x \in (DOMAIN @) \cup {c} |->
                                 IF x = c THEN NewCampaign(userId, data) ELSE @[x]],
                !.inMap = @ \cup {c},
                !.userCampaigns[userId] = @ \cup {c}]
    IN UNION {ProcessCampaign(E2, c) : E2 \in SaveCampaigns(E1)}

\* stopCampaign: the value it returns, and the states it may leave
StopCampaignCall(E, c, userId) ==
    IF ~OwnedBy(E, c, userId) THEN [value |-> FALSE, outcomes |-> {E}]
    ELSE [value |-> TRUE,
          outcomes |-> SaveCampaigns(ClearTimer([E EXCEPT !.campaigns[c].status = "stopped"], c))]

\* restartCampaign past its guard
RestartedCampaign(E, c) ==
    LET E1 == [E EXCEPT
                !.campaigns[c].status = "active",
                !.campaigns[c].progress.currentIndex = 0,
                !.campaigns[c].progress.sent = 0,
                !.campaigns[c].progress.failed = 0,
                !.campaigns[c].startedAt = "Date",
                !.campaigns[c].rotationState =
                    [deviceIndex |-> 0, deviceUsage |-> NewMap,
                     currentDeviceMessageCount |-> 0, currentDevice |-> NoDevice]]
    IN {ScheduleLoose(E2, c, RestartDelay) : E2 \in SaveCampaigns(ClearTimer(E1, c))}

\* restartCampaign: the value it returns, and the states it may leave
RestartCampaignCall(E, c, userId) ==
    IF ~OwnedBy(E, c, userId) THEN [value |-> FALSE, outcomes |-> {E}]
    ELSE [value |-> TRUE, outcomes |-> RestartedCampaign(E, c)]

\* clearUserCampaigns
ClearUserCampaignsCall(E, userId) ==
    LET ids == E.userCampaigns[userId]
        E1 == [E EXCEPT
                !.campaignTimers = [c \in CampaignIds |-> IF c \in ids THEN NoTimer ELSE @[c]],
                !.inMap = @ \ ids,
                !.userCampaigns[userId] = {}]
        \* clearUserMessages
        E2 == SaveMessages([E1 EXCEPT !.messageHistory[userId] = <<>>])
    IN SaveCampaigns(E2)

\* The constructor after a process start: loadCampaigns, loadMessages,
\* startCampaignRecovery.  Timers and suspended ticks of the previous process
\* are gone with it.
Constructed(E) ==
    LET loaded == [c \in DOMAIN E.campaignsFile |-> Loaded(E.campaignsFile[c])]
        recover == {c \in DOMAIN loaded :
                        /\ loaded[c].status = "active"
                        /\ loaded[c].progress.currentIndex < loaded[c].recipients}
    IN [campaigns |-> loaded,
        inMap |-> DOMAIN loaded,
        userCampaigns |-> [u \in Users |-> {c \in DOMAIN loaded : loaded[c].userId = u}],
        campaignTimers |-> [c \in CampaignIds |-> NoTimer],
        looseTimers |-> [c \in CampaignIds |-> IF c \in recover THEN 1 ELSE 0],
        inflight |-> [c \in CampaignIds |-> EmptyBag],
        messageHistory |-> E.messagesFile,
        campaignsFile |-> E.campaignsFile,
        messagesFile |-> E.messagesFile,
        scheduled |-> {[campaign |-> c, delay |-> RecoveryDelay] : c \in recover}]

\* Campaign objects nothing refers to any more (removed from the map, no tick
\* suspended on them) are dropped, as the garbage collector drops them.
Collect(E) ==
    [E EXCEPT !.campaigns =
        [c \in {x \in DOMAIN @ : x \in E.inMap \/ E.inflight[x] # EmptyBag} |-> @[c]]]

\* One run of a handler ends in one of its outcomes (inside the model's bounds).
Ends(outcomes) == \E E2 \in outcomes : Bounded(E2) /\ SetEngine(Collect(E2))

\* ------------------------------------------------------------------ initial state
EmptyEngine ==
    [campaigns |-> [c \in {} |-> 0],
     inMap |-> {},
     userCampaigns |-> [u \in Users |-> {}],
     campaignTimers |-> [c \in CampaignIds |-> NoTimer],
     looseTimers |-> [c \in CampaignIds |-> 0],
     inflight |-> [c \in CampaignIds |-> EmptyBag],
     messageHistory |-> [u \in Users |-> <<>>],
     campaignsFile |-> [c \in {} |-> 0],
     messagesFile |-> [u \in Users |-> <<>>],
     scheduled |-> {}]

\* No timer of any device is pending.
NoDeviceTimers == [d \in Devices |-> {}]

\* No selection has been made: no device list is fixed yet.
NoRotation ==
    [devs |-> <<>>, start |-> 0, selected |-> <<>>, messagesPerDevice |-> 0,
     rs |-> [deviceIndex |-> 0, deviceUsage |-> NewMap,
             currentDeviceMessageCount |-> 0, currentDevice |-> NoDevice]]

\* The legacy SessionManager after construction: no session, no timer.  A
\* session is [instance, status, isReady, qrCode]: instance numbers the session
\* objects made under the id, qrCode is the pairing token stored (0: null).
\* qrTimers and reclaimTimers are the pending timers of the qr and
\* disconnected handlers in the order they were set, each with the session
\* object whose client raised the event (and the token the handler stored).
NoSessions ==
    [map |-> [s \in {} |-> 0], timeouts |-> {}, qrTimers |-> <<>>,
     reclaimTimers |-> <<>>, created |-> 0, issued |-> 0]

\* The server after its first start: nothing stored, no device.
Init ==
    /\ devices = [d \in {} |-> 0]
    /\ deviceTimers = NoDeviceTimers
    /\ rotation = NoRotation
    /\ sessions = NoSessions
    /\ issuedDevices = {}
    /\ issuedCampaigns = {}
    /\ campaigns = EmptyEngine.campaigns
    /\ inMap = EmptyEngine.inMap
    /\ userCampaigns = EmptyEngine.userCampaigns
    /\ campaignTimers = EmptyEngine.campaignTimers
    /\ looseTimers = EmptyEngine.looseTimers
    /\ inflight = EmptyEngine.inflight
    /\ messageHistory = EmptyEngine.messageHistory
    /\ campaignsFile = EmptyEngine.campaignsFile
    /\ messagesFile = EmptyEngine.messagesFile

\* ------------------------------------------------------------------ device actions
\* The timers of a device.  "inactivity" is the one deviceTimeouts holds; the
\* others are set by event handlers and held nowhere: the expiry of a QR code,
\* the recreate after a failed QR generation, the reclamation after a
\* disconnect and the recreate after a closed session.
TimerKinds == {"inactivity", "qr-expiry", "qr-recreate", "reclaim", "error-recreate"}

\* resetDeviceTimeout: the inactivity timer replaced by a new one.
ResetDeviceTimeout(timers, d) == [timers EXCEPT ![d] = @ \cup {"inactivity"}]

\* setTimeout in an event handler of the device.
SetDeviceTimer(timers, d, kind) == [timers EXCEPT ![d] = @ \cup {kind}]

\* deleteDevice on the registry: the device leaves the map (its owner's set is
\* the devices of the map with that owner); of its timers only the one in
\* deviceTimeouts is cleared.
DeletedDevice(registry, d) ==
    [devices |-> [x \in (DOMAIN registry.devices) \ {d} |-> registry.devices[x]],
     deviceTimers |-> [registry.deviceTimers EXCEPT ![d] = @ \ {"inactivity"}]]

\* The device registry as one value.
Registry == [devices |-> devices, deviceTimers |-> deviceTimers]

\* createDevice: a fresh identifier, the device stored not ready.
CreateDevice(d) ==
    /\ d \notin issuedDevices
    /\ issuedDevices' = issuedDevices \cup {d}
    /\ devices' = [x \in (DOMAIN devices) \cup {d} |->
                     IF x = d
                     THEN [userId |-> DeviceUser[d], status |-> "initializing", isReady |-> FALSE]
                     ELSE devices[x]]
    /\ UNCHANGED <<rotation, sessions, deviceTimers, issuedCampaigns, engineVars>>

\* The transport's `ready` event.
DeviceReady(d) ==
    /\ d \in DOMAIN devices
    /\ devices' = [devices EXCEPT ![d].status = "ready", ![d].isReady = TRUE]
    /\ UNCHANGED <<rotation, sessions, deviceTimers, issuedDevices, issuedCampaigns, engineVars>>

\* The transport's `disconnected` event: the device marked, and its
\* reclamation set for after the grace delay.
DeviceDisconnected(d) ==
    /\ d \in DOMAIN devices
    /\ devices' = [devices EXCEPT ![d].status = "disconnected", ![d].isReady = FALSE]
    /\ deviceTimers' = SetDeviceTimer(deviceTimers, d, "reclaim")
    /\ UNCHANGED <<rotation, sessions, issuedDevices, issuedCampaigns, engineVars>>

\* createDevice after `await client.initialize()`: the inactivity timer of the
\* device is started.
DeviceInitialized(d) ==
    /\ d \in DOMAIN devices
    /\ deviceTimers' = ResetDeviceTimeout(deviceTimers, d)
    /\ UNCHANGED <<rotation, sessions, devices, issuedDevices, issuedCampaigns, engineVars>>

\* The transport's `qr` event.  With the image generated the device waits for
\* the scan and the expiry of the code is timed; with the generation failed the
\* device is marked and a recreate is timed.  The readiness flag is not written.
DeviceQr(d, generated) ==
    /\ d \in DOMAIN devices
    /\ devices' = [devices EXCEPT ![d].status = IF generated THEN "waiting-for-qr-scan"
                                                             ELSE "qr-error"]
    /\ deviceTimers' = SetDeviceTimer(deviceTimers, d,
                                      IF generated THEN "qr-expiry" ELSE "qr-recreate")
    /\ UNCHANGED <<rotation, sessions, issuedDevices, issuedCampaigns, engineVars>>

\* The transport's `authenticated` event.  The readiness flag is not written.
DeviceAuthenticated(d) ==
    /\ d \in DOMAIN devices
    /\ devices' = [devices EXCEPT ![d].status = "authenticated"]
    /\ UNCHANGED <<rotation, sessions, deviceTimers, issuedDevices, issuedCampaigns, engineVars>>

\* The transport's `auth_failure` event.
DeviceAuthFailure(d) ==
    /\ d \in DOMAIN devices
    /\ devices' = [devices EXCEPT ![d].status = "auth-failed", ![d].isReady = FALSE]
    /\ UNCHANGED <<rotation, sessions, deviceTimers, issuedDevices, issuedCampaigns, engineVars>>

\* The transport's `error` event; for a closed session or target a recreate
\* of the device is timed.
DeviceError(d, closed) ==
    /\ d \in DOMAIN devices
    /\ devices' = [devices EXCEPT ![d].status = "error", ![d].isReady = FALSE]
    /\ deviceTimers' = IF closed THEN SetDeviceTimer(deviceTimers, d, "error-recreate")
                                  ELSE deviceTimers
    /\ UNCHANGED <<rotation, sessions, issuedDevices, issuedCampaigns, engineVars>>

\* createDevice as a timer calls it: the new device n stored in the registry.
WithNewDevice(registry, n, userId) ==
    [registry EXCEPT !.devices =
        [x \in (DOMAIN registry.devices) \cup {n} |->
            IF x = n THEN [userId |-> userId, status |-> "initializing", isReady |-> FALSE]
                     ELSE registry.devices[x]]]

\* The registry after a timer of device d has run.  The inactivity and the
\* reclamation timers delete the device; the recreate after a closed session
\* deletes it and creates a device n; the recreate after a failed QR generation
\* creates a device n and leaves d in the map; the expiry of a QR code only
\* drops the code.
AfterDeviceTimer(registry, d, kind, n) ==
    CASE kind \in {"inactivity", "reclaim"} -> DeletedDevice(registry, d)
      [] kind = "error-recreate" -> WithNewDevice(DeletedDevice(registry, d), n, DeviceUser[d])
      [] kind = "qr-recreate" -> WithNewDevice(registry, n, DeviceUser[d])
      [] OTHER -> registry

\* createDevice(userId, ...) by either user: the device gets a fresh
\* identifier and is stored, not ready, as a device of that user.
CreateDeviceOf(d, userId) ==
    /\ d \notin issuedDevices
    /\ issuedDevices' = issuedDevices \cup {d}
    /\ devices' = WithNewDevice(Registry, d, userId).devices
    /\ UNCHANGED <<rotation, sessions, deviceTimers, issuedCampaigns, engineVars>>

\* createDevice when client.initialize() fails on each of its attempts, the
\* awaits taken together: the device is stored before the attempts, and the
\* catch block deletes it only if `typeof deviceId !== 'undefined'`.  deviceId
\* is a const of the try block and not in scope in the catch block, where
\* typeof gives 'undefined'.  The error is thrown on to the caller.
CreateDeviceFails(d) ==
    /\ d \notin issuedDevices
    /\ issuedDevices' = issuedDevices \cup {d}
    /\ LET stored == WithNewDevice(Registry, d, DeviceUser[d])
           deviceIdDefined == FALSE
           after == IF deviceIdDefined /\ d \in DOMAIN stored.devices
                    THEN DeletedDevice(stored, d)
                    ELSE stored
       IN  /\ devices' = after.devices
           /\ deviceTimers' = after.deviceTimers
    /\ UNCHANGED <<rotation, sessions, issuedCampaigns, engineVars>>

\* A pending timer of device d fires.  A recreate draws a fresh identifier n
\* (none is drawn by the other kinds).
DeviceTimerFires(d, kind) ==
    /\ kind \in deviceTimers[d]
    /\ \E n \in Devices :
        /\ IF kind \in {"error-recreate", "qr-recreate"}
           THEN n \notin issuedDevices /\ issuedDevices' = issuedDevices \cup {n}
           ELSE n = d /\ issuedDevices' = issuedDevices
        /\ LET fired == [Registry EXCEPT !.deviceTimers[d] = @ \ {kind}]
               after == AfterDeviceTimer(fired, d, kind, n)
           IN  /\ devices' = after.devices
               /\ deviceTimers' = after.deviceTimers
    /\ UNCHANGED <<rotation, sessions, issuedCampaigns, engineVars>>

NotReadyError == "Device not ready for sending messages"

\* sendMessage(deviceId, ...), its awaits taken together.  sent: the transport
\* acknowledges the message.  The guard reads the readiness flag, not the
\* status.  error is what the call throws ("none": it returns), transport
\* whether the transport was called, stamped whether lastActivity was written.
SendMessageCall(registry, d, sent) ==
    IF d \notin DOMAIN registry.devices \/ ~registry.devices[d].isReady
    THEN [error |-> NotReadyError, transport |-> FALSE, stamped |-> FALSE,
          registry |-> registry]
    ELSE IF sent
    THEN [error |-> "none", transport |-> TRUE, stamped |-> TRUE,
          registry |-> [registry EXCEPT !.deviceTimers = ResetDeviceTimeout(@, d)]]
    ELSE [error |-> "transport", transport |-> TRUE, stamped |-> FALSE,
          registry |-> registry]

\* A message sent through device d outside a campaign.
SendMessage(d, sent) ==
    /\ devices' = SendMessageCall(Registry, d, sent).registry.devices
    /\ deviceTimers' = SendMessageCall(Registry, d, sent).registry.deviceTimers
    /\ UNCHANGED <<rotation, sessions, issuedDevices, issuedCampaigns, engineVars>>

\* deleteDevice, called by the owner on a device of the map.
DeleteDevice(d) ==
    /\ d \in DOMAIN devices
    /\ devices' = DeletedDevice(Registry, d).devices
    /\ deviceTimers' = DeletedDevice(Registry, d).deviceTimers
    /\ UNCHANGED <<rotation, sessions, issuedDevices, issuedCampaigns, engineVars>>

\* ------------------------------------------------------------------ legacy sessions
SessionIds == {"s1"}

\* deleteSession on the manager's maps: the session leaves the map and its
\* entry of sessionTimeouts is cleared; the handlers' timers are held nowhere.
DeletedSession(S, sid) ==
    [S EXCEPT !.map = [x \in (DOMAIN S.map) \ {sid} |-> S.map[x]],
              !.timeouts = @ \ {sid}]

\* createSession(sessionId), its await taken together: an existing session is
\* returned with its timeout reset, else a new session object is stored under
\* the id and its timeout set.
CreateSession(sid) ==
    /\ IF sid \in DOMAIN sessions.map
       THEN sessions' = [sessions EXCEPT !.timeouts = @ \cup {sid}]
       ELSE /\ sessions.created < MaxInstances
            /\ sessions' = [sessions EXCEPT
                    !.map = [x \in (DOMAIN sessions.map) \cup {sid} |->
                                IF x = sid
                                THEN [instance |-> sessions.created + 1,
                                      status |-> "initializing", isReady |-> FALSE,
                                      qrCode |-> 0]
                                ELSE sessions.map[x]],
                    !.timeouts = @ \cup {sid},
                    !.created = @ + 1]
    /\ UNCHANGED <<rotation, devices, deviceTimers, issuedDevices, issuedCampaigns, engineVars>>

\* The transport's `qr` event of the session's client: a fresh pairing token
\* is stored on the session and its expiry is timed.
SessionQr(sid) ==
    /\ sid \in DOMAIN sessions.map
    /\ sessions.issued < MaxTokens
    /\ sessions' = [sessions EXCEPT
            !.map[sid].status = "waiting-for-qr-scan",
            !.map[sid].qrCode = sessions.issued + 1,
            !.issued = @ + 1,
            !.qrTimers = Append(@, [sid |-> sid, instance |-> sessions.map[sid].instance,
                                    token |-> sessions.issued + 1])]
    /\ UNCHANGED <<rotation, devices, deviceTimers, issuedDevices, issuedCampaigns, engineVars>>

\* The transport's `ready` event: the token has been claimed.
SessionReady(sid) ==
    /\ sid \in DOMAIN sessions.map
    /\ sessions' = [sessions EXCEPT !.map[sid].status = "ready",
                                    !.map[sid].isReady = TRUE,
                                    !.map[sid].qrCode = 0]
    /\ UNCHANGED <<rotation, devices, deviceTimers, issuedDevices, issuedCampaigns, engineVars>>

\* The transport's `disconnected` event (once for a client): the session is
\* marked and its reclamation is timed.
SessionDisconnected(sid) ==
    /\ sid \in DOMAIN sessions.map
    /\ \A i \in DOMAIN sessions.reclaimTimers :
            sessions.reclaimTimers[i].instance # sessions.map[sid].instance
    /\ sessions' = [sessions EXCEPT
            !.map[sid].status = "disconnected",
            !.map[sid].isReady = FALSE,
            !.reclaimTimers = Append(@, [sid |-> sid,
                                         instance |-> sessions.map[sid].instance])]
    /\ UNCHANGED <<rotation, devices, deviceTimers, issuedDevices, issuedCampaigns, engineVars>>

\* The oldest pending expiry timer runs: the token of the session now stored
\* under the id is dropped if that session waits for a scan.
QrExpiryFires ==
    /\ sessions.qrTimers # <<>>
    /\ LET sid == Head(sessions.qrTimers).sid
           fired == [sessions EXCEPT !.qrTimers = Tail(@)]
       IN  sessions' = IF sid \in DOMAIN sessions.map
                          /\ sessions.map[sid].status = "waiting-for-qr-scan"
                       THEN [fired EXCEPT !.map[sid].qrCode = 0]
                       ELSE fired
    /\ UNCHANGED <<rotation, devices, deviceTimers, issuedDevices, issuedCampaigns, engineVars>>

\* The oldest pending reclamation timer runs: deleteSession(sessionId).
ReclaimFires ==
    /\ sessions.reclaimTimers # <<>>
    /\ sessions' = DeletedSession([sessions EXCEPT !.reclaimTimers = Tail(@)],
                                  Head(sessions.reclaimTimers).sid)
    /\ UNCHANGED <<rotation, devices, deviceTimers, issuedDevices, issuedCampaigns, engineVars>>

\* The timer of sessionTimeouts runs: deleteSession(sessionId).
SessionTimeoutFires(sid) ==
    /\ sid \in sessions.timeouts
    /\ sessions' = DeletedSession(sessions, sid)
    /\ UNCHANGED <<rotation, devices, deviceTimers, issuedDevices, issuedCampaigns, engineVars>>

\* deleteSession, called on a session of the map.
DeleteSession(sid) ==
    /\ sid \in DOMAIN sessions.map
    /\ sessions' = DeletedSession(sessions, sid)
    /\ UNCHANGED <<rotation, devices, deviceTimers, issuedDevices, issuedCampaigns, engineVars>>

\* ------------------------------------------------------------------ engine actions
\* createCampaign.  uuidv4 never repeats: c is an identifier not handed out before.
CreateCampaign(c, userId, data) ==
    /\ c \notin issuedCampaigns
    /\ issuedCampaigns' = issuedCampaigns \cup {c}
    /\ Ends(CreateCampaignCall(Engine, c, userId, data))
    /\ UNCHANGED <<rotation, sessions, devices, deviceTimers, issuedDevices>>

\* The timer campaignTimers records for the campaign fires.
TimerFires(c) ==
    /\ campaignTimers[c] = "live"
    /\ Ends(ProcessCampaign([Engine EXCEPT !.campaignTimers[c] = "dead"], c))
    /\ UNCHANGED <<rotation, sessions, devices, deviceTimers, issuedDevices, issuedCampaigns>>

\* A timer of the campaign that campaignTimers does not record fires.
LooseTimerFires(c) ==
    /\ looseTimers[c] > 0
    /\ Ends(ProcessCampaign([Engine EXCEPT !.looseTimers[c] = @ - 1], c))
    /\ UNCHANGED <<rotation, sessions, devices, deviceTimers, issuedDevices, issuedCampaigns>>

\* A suspended tick: the index of the recipient it took and the device it chose.
Ticks == [ri : 0..(MaxRecipients - 1), device : Devices]

\* The transport acknowledges the send a tick awaits: sendMessage restarts the
\* inactivity timer of the device and returns to the tick.
SendSucceeds(c, tick) ==
    /\ tick \in BagToSet(inflight[c])
    /\ deviceTimers' = ResetDeviceTimeout(deviceTimers, tick.device)
    /\ Ends(ResumeTick([Engine EXCEPT !.inflight[c] = @ (-) SetToBag({tick})], c, tick, TRUE))
    /\ UNCHANGED <<rotation, sessions, devices, issuedDevices, issuedCampaigns>>

\* The send a tick awaits fails.
SendFails(c, tick) ==
    /\ tick \in BagToSet(inflight[c])
    /\ Ends(ResumeTick([Engine EXCEPT !.inflight[c] = @ (-) SetToBag({tick})], c, tick, FALSE))
    /\ UNCHANGED <<rotation, sessions, devices, deviceTimers, issuedDevices, issuedCampaigns>>

StopCampaign(c, userId) ==
    /\ Ends(StopCampaignCall(Engine, c, userId).outcomes)
    /\ UNCHANGED <<rotation, sessions, devices, deviceTimers, issuedDevices, issuedCampaigns>>

RestartCampaign(c, userId) ==
    /\ Ends(RestartCampaignCall(Engine, c, userId).outcomes)
    /\ UNCHANGED <<rotation, sessions, devices, deviceTimers, issuedDevices, issuedCampaigns>>

ClearUserCampaigns(userId) ==
    /\ Ends(ClearUserCampaignsCall(Engine, userId))
    /\ UNCHANGED <<rotation, sessions, devices, deviceTimers, issuedDevices, issuedCampaigns>>

\* The socket's get-history-data: the user's messages are read with
\* getUserMessages, which returns the stored array, and sorted in place.
GetHistoryData(userId) ==
    /\ Ends({[Engine EXCEPT !.messageHistory[userId] = SortedNewestFirst(@)]})
    /\ UNCHANGED <<rotation, sessions, devices, deviceTimers, issuedDevices, issuedCampaigns>>

\* The process dies and is started again: a new device registry (empty), and
\* the campaign manager built from the two files.
Reboot ==
    /\ devices' = [d \in {} |-> 0]
    /\ deviceTimers' = NoDeviceTimers
    /\ SetEngine(Constructed(Engine))
    /\ UNCHANGED <<rotation, sessions, issuedDevices, issuedCampaigns>>

\* ------------------------------------------------------------------ rotation
\* The eligible devices of a campaign as processCampaign hands them to the
\* selector: a list without repetition, here of up to three devices.
RotationDevices == {"d1", "d2", "d3"}

DeviceLists ==
    {devs \in UNION {[1..k -> RotationDevices] : k \in 1..3} :
        \A i, j \in DOMAIN devs : i # j => devs[i] # devs[j]}

RoundRobinOptions ==
    [rotationStrategy |-> "round-robin", selectedDevices |-> NoSelection, messagesPerDevice |-> 2]

\* The options of the campaign whose rotation state `rotation` holds:
\* custom-count when a messagesPerDevice was given, round-robin otherwise.
RotationOptions ==
    IF rotation.messagesPerDevice > 0
    THEN [rotationStrategy |-> "custom-count", selectedDevices |-> NoSelection,
          messagesPerDevice |-> rotation.messagesPerDevice]
    ELSE RoundRobinOptions

\* The device list is fixed and the cursor of the rotation state is at `start`
\* (the cursor of a campaign that has made `start` selections).
StartRotation(devs, start) ==
    /\ rotation = NoRotation
    /\ rotation' = [NoRotation EXCEPT !.devs = devs, !.start = start,
                                      !.rs.deviceIndex = start]
    /\ UNCHANGED <<sessions, devices, deviceTimers, issuedDevices, issuedCampaigns, engineVars>>

\* One tick of processCampaign on the rotation state: selectDeviceByStrategy,
\* the send, and updateRotationState when the send succeeded.
SelectAndSend(sent) ==
    /\ rotation.devs # <<>>
    /\ Len(rotation.selected) < MaxSelections
    /\ \E pick \in SelectDeviceByStrategy(rotation.devs, rotation.rs, RotationOptions) :
        rotation' = [rotation EXCEPT
                        !.selected = Append(@, pick.device),
                        !.rs = IF sent THEN UpdateRotationState(pick.rs, pick.device)
                                       ELSE pick.rs]
    /\ UNCHANGED <<sessions, devices, deviceTimers, issuedDevices, issuedCampaigns, engineVars>>

\* A custom-count campaign starts on the device list: the rotation state as
\* createCampaign makes it, and messagesPerDevice = threshold.
StartCustomCount(devs, threshold) ==
    /\ rotation = NoRotation
    /\ rotation' = [NoRotation EXCEPT !.devs = devs, !.messagesPerDevice = threshold]
    /\ UNCHANGED <<sessions, devices, deviceTimers, issuedDevices, issuedCampaigns, engineVars>>

\* Custom-count selections from one list of two or three devices.
NextCustomCount ==
    \/ \E devs \in DeviceLists, threshold \in 1..MaxThreshold :
            Len(devs) >= 2 /\ StartCustomCount(devs, threshold)
    \/ \E sent \in BOOLEAN : SelectAndSend(sent)

SpecCustomCount == Init /\ [][NextCustomCount]_vars

NextRotation ==
    \/ \E devs \in DeviceLists, start \in 0..MaxStartCursor : StartRotation(devs, start)
    \/ \E sent \in BOOLEAN : SelectAndSend(sent)

SpecRotation == Init /\ [][NextRotation]_vars

\* ------------------------------------------------------------------ specifications
\* One round-robin campaign of u1 on one device: creation, ticks, timers, sends,
\* stop and restart by anyone, and a restart of the process.
SpecDevices == {"d1"}
SpecCampaigns == {"c1"}
CampaignInputs ==
    [messageIsText : BOOLEAN, recipients : 0..MaxRecipients, rotationStrategy : {"round-robin"},
     selectedDevices : {NoSelection}, messagesPerDevice : {2}]

Next ==
    \/ \E d \in SpecDevices : CreateDevice(d)
    \/ \E d \in SpecDevices : DeviceReady(d)
    \/ \E d \in SpecDevices : DeviceDisconnected(d)
    \/ \E c \in SpecCampaigns, data \in CampaignInputs : CreateCampaign(c, "u1", data)
    \/ \E c \in SpecCampaigns : TimerFires(c)
    \/ \E c \in SpecCampaigns : LooseTimerFires(c)
    \/ \E c \in SpecCampaigns, tick \in Ticks : SendSucceeds(c, tick)
    \/ \E c \in SpecCampaigns, tick \in Ticks : SendFails(c, tick)
    \/ \E c \in CampaignIds, u \in Users : StopCampaign(c, u)
    \/ \E c \in CampaignIds, u \in Users : RestartCampaign(c, u)
    \/ Reboot

Spec == Init /\ [][Next]_vars

\* The same campaign with every operation of the engine: either rotation
\* strategy, the device deleted, the user's campaigns cleared.
WideInputs ==
    [messageIsText : BOOLEAN, recipients : 0..MaxRecipients,
     rotationStrategy : {"round-robin", "custom-count"},
     selectedDevices : {NoSelection}, messagesPerDevice : {2}]

NextWide ==
    \/ \E d \in SpecDevices : CreateDevice(d)
    \/ \E d \in SpecDevices : DeviceReady(d)
    \/ \E d \in SpecDevices : DeviceDisconnected(d)
    \/ \E d \in SpecDevices : DeleteDevice(d)
    \/ \E c \in SpecCampaigns, data \in WideInputs : CreateCampaign(c, "u1", data)
    \/ \E c \in SpecCampaigns : TimerFires(c)
    \/ \E c \in SpecCampaigns : LooseTimerFires(c)
    \/ \E c \in SpecCampaigns, tick \in Ticks : SendSucceeds(c, tick)
    \/ \E c \in SpecCampaigns, tick \in Ticks : SendFails(c, tick)
    \/ \E c \in CampaignIds, u \in Users : StopCampaign(c, u)
    \/ \E c \in CampaignIds, u \in Users : RestartCampaign(c, u)
    \/ \E u \in Users : ClearUserCampaigns(u)
    \/ \E u \in Users : GetHistoryData(u)
    \/ Reboot

SpecWide == Init /\ [][NextWide]_vars

\* Two campaigns of one user on one device, from creation to completion.
PairInputs ==
    [messageIsText : {TRUE}, recipients : 1..MaxRecipients, rotationStrategy : {"round-robin"},
     selectedDevices : {NoSelection}, messagesPerDevice : {2}]

NextPair ==
    \/ \E d \in SpecDevices : CreateDevice(d)
    \/ \E d \in SpecDevices : DeviceReady(d)
    \/ \E d \in SpecDevices : DeviceDisconnected(d)
    \/ \E c \in CampaignIds, data \in PairInputs : CreateCampaign(c, "u1", data)
    \/ \E c \in CampaignIds : TimerFires(c)
    \/ \E c \in CampaignIds, tick \in Ticks : SendSucceeds(c, tick)
    \/ \E c \in CampaignIds, tick \in Ticks : SendFails(c, tick)

SpecPair == Init /\ [][NextPair]_vars

\* One campaign of u1 over two devices, with or without a configured subset.
OnlySecondDevice == [given |-> TRUE, ids |-> {"d2"}]

SubsetInputs ==
    [messageIsText : {TRUE}, recipients : 1..MaxRecipients, rotationStrategy : {"round-robin"},
     selectedDevices : {NoSelection, OnlySecondDevice}, messagesPerDevice : {2}]

NextSubset ==
    \/ \E d \in Devices : CreateDevice(d)
    \/ \E d \in Devices : DeviceReady(d)
    \/ \E d \in Devices : DeviceDisconnected(d)
    \/ \E c \in SpecCampaigns, data \in SubsetInputs : CreateCampaign(c, "u1", data)
    \/ \E c \in SpecCampaigns : TimerFires(c)
    \/ \E c \in SpecCampaigns, tick \in Ticks : SendSucceeds(c, tick)
    \/ \E c \in SpecCampaigns, tick \in Ticks : SendFails(c, tick)

SpecSubset == Init /\ [][NextSubset]_vars

\* One campaign of u1 across restarts of the process: a device can be created
\* in each life of the process.
CrashInputs ==
    [messageIsText : {TRUE}, recipients : 1..MaxRecipients, rotationStrategy : {"round-robin"},
     selectedDevices : {NoSelection}, messagesPerDevice : {2}]

NextCrash ==
    \/ \E d \in Devices : CreateDevice(d)
    \/ \E d \in Devices : DeviceReady(d)
    \/ \E c \in SpecCampaigns, data \in CrashInputs : CreateCampaign(c, "u1", data)
    \/ \E c \in SpecCampaigns : TimerFires(c)
    \/ \E c \in SpecCampaigns : LooseTimerFires(c)
    \/ \E c \in SpecCampaigns, tick \in Ticks : SendSucceeds(c, tick)
    \/ \E c \in SpecCampaigns, tick \in Ticks : SendFails(c, tick)
    \/ \E c \in SpecCampaigns : RestartCampaign(c, "u1")
    \/ Reboot

SpecCrash == Init /\ [][NextCrash]_vars

\* The device registry alone: two devices of u1, the transport's events in any
\* order, the timers, direct sends and deletions.
NextDevice ==
    \/ \E d \in Devices : CreateDevice(d)
    \/ \E d \in Devices : CreateDeviceFails(d)
    \/ \E d \in Devices : DeviceInitialized(d)
    \/ \E d \in Devices, generated \in BOOLEAN : DeviceQr(d, generated)
    \/ \E d \in Devices : DeviceAuthenticated(d)
    \/ \E d \in Devices : DeviceReady(d)
    \/ \E d \in Devices : DeviceAuthFailure(d)
    \/ \E d \in Devices : DeviceDisconnected(d)
    \/ \E d \in Devices, closed \in BOOLEAN : DeviceError(d, closed)
    \/ \E d \in Devices, kind \in TimerKinds : DeviceTimerFires(d, kind)
    \/ \E d \in Devices, sent \in BOOLEAN : SendMessage(d, sent)
    \/ \E d \in Devices : DeleteDevice(d)

SpecDevice == Init /\ [][NextDevice]_vars

\* The legacy SessionManager alone: sessions made and deleted under one id,
\* the transport's events and the timers.
NextSession ==
    \/ \E sid \in SessionIds : CreateSession(sid)
    \/ \E sid \in SessionIds : SessionQr(sid)
    \/ \E sid \in SessionIds : SessionReady(sid)
    \/ \E sid \in SessionIds : SessionDisconnected(sid)
    \/ QrExpiryFires
    \/ ReclaimFires
    \/ \E sid \in SessionIds : SessionTimeoutFires(sid)
    \/ \E sid \in SessionIds : DeleteSession(sid)

SpecSession == Init /\ [][NextSession]_vars

\* One campaign of u1 on devices that are ready before it is created and stay
\* ready (no device event arrives once the campaign exists), with the policies
\* that read or report the usage counters.
UsageInputs ==
    [messageIsText : {TRUE}, recipients : 1..MaxRecipients,
     rotationStrategy : {"round-robin", "load-balanced"},
     selectedDevices : {NoSelection}, messagesPerDevice : {2}]

NextUsage ==
    \/ \E d \in Devices : issuedCampaigns = {} /\ CreateDevice(d)
    \/ \E d \in Devices : issuedCampaigns = {} /\ DeviceReady(d)
    \/ \E c \in SpecCampaigns, data \in UsageInputs : CreateCampaign(c, "u1", data)
    \/ \E c \in SpecCampaigns : TimerFires(c)
    \/ \E c \in SpecCampaigns, tick \in Ticks : SendSucceeds(c, tick)
    \/ \E c \in SpecCampaigns, tick \in Ticks : SendFails(c, tick)

SpecUsage == Init /\ [][NextUsage]_vars

\* One campaign of u1 on one device, created with each kind of delay: fixed
\* numbers (0 among them), the three random policies, and a custom range in
\* seconds, given or not.
DelaySettings ==
    {[kind |-> "number", value |-> v] : v \in {0, 1, 1500}}
        \cup {[kind |-> k, value |-> 0] :
                k \in {"random-fast", "random-normal", "random-safe", "custom"}}

DelayInputs ==
    [messageIsText : {TRUE}, recipients : 1..MaxRecipients, rotationStrategy : {"round-robin"},
     selectedDevices : {NoSelection}, messagesPerDevice : {2},
     delay : DelaySettings, customMinDelay : {0, 1}, customMaxDelay : {2}]

NextDelay ==
    \/ \E d \in SpecDevices : CreateDevice(d)
    \/ \E d \in SpecDevices : DeviceReady(d)
    \/ \E c \in SpecCampaigns, data \in DelayInputs : CreateCampaign(c, "u1", data)
    \/ \E c \in SpecCampaigns : TimerFires(c)
    \/ \E c \in SpecCampaigns, tick \in Ticks : SendSucceeds(c, tick)
    \/ \E c \in SpecCampaigns, tick \in Ticks : SendFails(c, tick)

SpecDelay == Init /\ [][NextDelay]_vars

\* One campaign of u1 under each rotation policy, on two devices whose
\* readiness changes between and during the ticks.
PolicyInputs ==
    [messageIsText : {TRUE}, recipients : 1..MaxRecipients,
     rotationStrategy : {"round-robin", "custom-count", "random", "load-balanced"},
     selectedDevices : {NoSelection, OnlySecondDevice}, messagesPerDevice : {2}]

NextPolicies ==
    \/ \E d \in Devices : CreateDevice(d)
    \/ \E d \in Devices : DeviceReady(d)
    \/ \E d \in Devices : DeviceDisconnected(d)
    \/ \E c \in SpecCampaigns, data \in PolicyInputs : CreateCampaign(c, "u1", data)
    \/ \E c \in SpecCampaigns : TimerFires(c)
    \/ \E c \in SpecCampaigns, tick \in Ticks : SendSucceeds(c, tick)
    \/ \E c \in SpecCampaigns, tick \in Ticks : SendFails(c, tick)

SpecPolicies == Init /\ [][NextPolicies]_vars

\* Devices of two users and one campaign of u1 under each strategy, with no
\* device subset or with a subset that names every device identifier, those
\* of the other user included.
NextOwners ==
    \/ \E d \in Devices, u \in Users : CreateDeviceOf(d, u)
    \/ \E d \in Devices : DeviceReady(d)
    \/ \E d \in Devices : DeviceDisconnected(d)
    \/ \E c \in SpecCampaigns,
          data \in [messageIsText : {TRUE}, recipients : 1..MaxRecipients,
                    rotationStrategy : {"round-robin", "custom-count", "random",
                                        "load-balanced"},
                    selectedDevices : {NoSelection, [given |-> TRUE, ids |-> Devices]},
                    messagesPerDevice : {2}] :
            CreateCampaign(c, "u1", data)
    \/ \E c \in SpecCampaigns : TimerFires(c)
    \/ \E c \in SpecCampaigns, tick \in Ticks : SendSucceeds(c, tick)
    \/ \E c \in SpecCampaigns, tick \in Ticks : SendFails(c, tick)

SpecOwners == Init /\ [][NextOwners]_vars

\* One campaign of u1 that is never stopped, restarted or cleared, on devices
\* that stay ready once they are: what is pending happens.  A pending timer
\* fires, and a send that a tick awaits ends, by success or by failure.
LiveInputs ==
    [messageIsText : {TRUE}, recipients : 0..MaxRecipients, rotationStrategy : {"round-robin"},
     selectedDevices : {NoSelection, OnlySecondDevice}, messagesPerDevice : {2}]

NextLive ==
    \/ \E d \in Devices : CreateDevice(d)
    \/ \E d \in Devices : DeviceReady(d)
    \/ \E c \in SpecCampaigns, data \in LiveInputs : CreateCampaign(c, "u1", data)
    \/ \E c \in SpecCampaigns : TimerFires(c)
    \/ \E c \in SpecCampaigns, tick \in Ticks : SendSucceeds(c, tick)
    \/ \E c \in SpecCampaigns, tick \in Ticks : SendFails(c, tick)

SendEnds(c) == \E tick \in Ticks : SendSucceeds(c, tick) \/ SendFails(c, tick)

SpecLive ==
    /\ Init /\ [][NextLive]_vars
    /\ \A c \in SpecCampaigns : WF_vars(TimerFires(c)) /\ WF_vars(SendEnds(c))

\* One campaign of u1, with or without a device subset, over one restart of
\* the process (the process is restarted while every campaign in memory is
\* one it created itself); devices stay ready once they are, and what is
\* pending happens.
BootInputs ==
    [messageIsText : {TRUE}, recipients : 1..MaxRecipients, rotationStrategy : {"round-robin"},
     selectedDevices : {NoSelection, OnlySecondDevice}, messagesPerDevice : {2}]

NextBoot ==
    \/ \E d \in Devices : CreateDevice(d)
    \/ \E d \in Devices : DeviceReady(d)
    \/ \E c \in SpecCampaigns, data \in BootInputs : CreateCampaign(c, "u1", data)
    \/ \E c \in SpecCampaigns : TimerFires(c)
    \/ \E c \in SpecCampaigns : LooseTimerFires(c)
    \/ \E c \in SpecCampaigns, tick \in Ticks : SendSucceeds(c, tick)
    \/ \E c \in SpecCampaigns, tick \in Ticks : SendFails(c, tick)
    \/ (\A c \in inMap : campaigns[c].createdAt = "Date") /\ Reboot

SpecBoot ==
    /\ Init /\ [][NextBoot]_vars
    /\ \A c \in SpecCampaigns :
            WF_vars(TimerFires(c)) /\ WF_vars(LooseTimerFires(c)) /\ WF_vars(SendEnds(c))

\* ------------------------------------------------------------------ properties
Progress(c) == campaigns[c].progress

\* Number of message records the history h holds for campaign c
RecordsOf(h, c) ==
    LET RECURSIVE Count(_)
        Count(us) ==
            IF us = {} THEN 0
            ELSE LET u == CHOOSE x \in us : TRUE
                 IN Cardinality({i \in 1..Len(h[u]) : h[u][i].campaignId = c})
                        + Count(us \ {u})
    IN Count(Users)

\* Number of message records of the owner's history for recipient j of campaign c
RecordsFor(c, j) ==
    LET h == messageHistory[campaigns[c].userId]
    IN Cardinality({i \in 1..Len(h) : h[i].campaignId = c /\ h[i].recipient = j})

\* Ticks of campaign c in progress, and its pending timers
TicksInProgress(c) == BagCardinality(inflight[c])

PendingTimers(c) == looseTimers[c] + (IF campaignTimers[c] = "live" THEN 1 ELSE 0)

\* Sends in progress on device d, over all campaigns
SendsOn(d) ==
    LET RECURSIVE Count(_)
        Count(cs) ==
            IF cs = {} THEN 0
            ELSE LET c == CHOOSE x \in cs : TRUE
                     onD == {t \in BagToSet(inflight[c]) : t.device = d}
                     RECURSIVE Copies(_)
                     Copies(ts) ==
                        IF ts = {} THEN 0
                        ELSE LET t == CHOOSE x \in ts : TRUE
                             IN CopiesIn(t, inflight[c]) + Copies(ts \ {t})
                 IN Copies(onD) + Count(cs \ {c})
    IN Count(CampaignIds)

\* C1: in every reachable state of every campaign, sent + failed <= next-index.
C1_SentFailedWithinIndex ==
    \A c \in inMap : Progress(c).sent + Progress(c).failed <= Progress(c).currentIndex

\* C2: next-index never exceeds total (the number of recipients).
C2_IndexWithinTotal ==
    \A c \in inMap : Progress(c).currentIndex <= Progress(c).total

\* C3: no operation performed while the campaign is active lowers its
\* next-index (a restart of the process is not an operation on the campaign).
C3_IndexNeverLoweredWhileActive ==
    [][Reboot \/ \A c \in inMap \cap inMap' :
            campaigns[c].status = "active"
                => campaigns'[c].progress.currentIndex >= campaigns[c].progress.currentIndex]_vars

\* C4: no campaign rests with next-index = total and a status other than completed.
C4_CompletedWhenIndexReachesTotal ==
    \A c \in inMap :
        Progress(c).currentIndex = Progress(c).total => campaigns[c].status = "completed"

FirstRun(c) == campaigns[c].createdAt = "Date" /\ campaigns[c].startedAt = "unset"

C6_OneTickChainPerCampaign ==
    \A c \in inMap :
        /\ TicksInProgress(c) <= 1
        /\ campaigns[c].status = "active" => TicksInProgress(c) + PendingTimers(c) <= 1

\* C7: at no time are two sends on the same device both in progress.
C7_SendsSerializedPerDevice ==
    \A d \in Devices : SendsOn(d) <= 1

\* C8: once stopCampaign has returned and until the campaign is restarted, no
\* message record is added for it, its status stays stopped and its next-index
\* keeps its value.
C8_StoppedCampaignStaysPut ==
    [][Reboot \/ \A c \in inMap \cap inMap' :
            (campaigns[c].status = "stopped" /\ campaigns'[c].status # "active")
                => /\ campaigns'[c].status = "stopped"
                   /\ campaigns'[c].progress.currentIndex = campaigns[c].progress.currentIndex
                   /\ RecordsOf(messageHistory', c) = RecordsOf(messageHistory, c)]_vars

\* C9: while a campaign stays stopped no tick timer is scheduled for it.
C9_NoTimerScheduledWhileStopped ==
    [][Reboot \/ \A c \in inMap \cap inMap' :
            (campaigns[c].status = "stopped" /\ campaigns'[c].status = "stopped")
                => /\ looseTimers'[c] <= looseTimers[c]
                   /\ campaignTimers'[c] = "live" => campaignTimers[c] = "live"]_vars

\* C10: in every reachable state, stopCampaign and restartCampaign called with
\* an unknown campaign id or by a user who does not own the campaign return
\* false and leave the engine (campaigns, progress, rotation state, timers,
\* suspended ticks, history, files) as it was.
C10_ForeignCallChangesNothing ==
    \A c \in CampaignIds, u \in Users :
        ~(c \in inMap /\ campaigns[c].userId = u)
            => /\ StopCampaignCall(Engine, c, u) = [value |-> FALSE, outcomes |-> {Engine}]
               /\ RestartCampaignCall(Engine, c, u) = [value |-> FALSE, outcomes |-> {Engine}]

\* A campaign of u1 is active with a tick in progress, a timer pending and
\* progress made: the state in which u2 calls with its identifier, or u1 with
\* the identifier of no campaign.
C10_Witness ==
    \E c \in inMap :
        /\ campaigns[c].status = "active"
        /\ campaigns[c].userId = "u1"
        /\ "c2" \notin inMap
        /\ Progress(c).currentIndex > 0
        /\ TicksInProgress(c) > 0
        /\ PendingTimers(c) > 0
        /\ StopCampaignCall(Engine, c, "u2").value = FALSE
        /\ RestartCampaignCall(Engine, "c2", "u1").value = FALSE

\* C11: restartCampaign called by the owner on a campaign whose status is
\* active resets neither progress nor rotation state and schedules no tick.
C11_RestartOnlyWhenNotActive ==
    [][\A c \in inMap :
            (campaigns[c].status = "active" /\ RestartCampaign(c, campaigns[c].userId))
                => /\ c \in inMap'
                   /\ campaigns'[c].progress = campaigns[c].progress
                   /\ campaigns'[c].rotationState = campaigns[c].rotationState
                   /\ PendingTimers(c)' = PendingTimers(c)]_vars

\* C12: no campaign is stored or persisted whose message is not a text or whose
\* recipient list is empty.
C12_InvalidCampaignNotStored ==
    /\ \A c \in inMap : campaigns[c].messageIsText /\ campaigns[c].recipients > 0
    /\ \A c \in DOMAIN campaignsFile :
            campaignsFile[c].messageIsText /\ campaignsFile[c].recipients > 0

\* No device is at once the campaign owner's, ready, and inside the subset the
\* campaign configures (if it configures one).
NoEligibleDevice(campaign) ==
    \A d \in DOMAIN devices :
        ~ /\ devices[d].userId = campaign.userId
          /\ devices[d].isReady
          /\ campaign.options.selectedDevices.given
                => d \in campaign.options.selectedDevices.ids

\* The engine as a tick of campaign c finds it: started by the recorded timer,
\* by a timer not recorded, or called directly.
TickEntries(c) ==
    {Engine}
        \cup (IF campaignTimers[c] = "live"
              THEN {[Engine EXCEPT !.campaignTimers[c] = "dead"]} ELSE {})
        \cup (IF looseTimers[c] > 0
              THEN {[Engine EXCEPT !.looseTimers[c] = @ - 1]} ELSE {})

\* What C13 says of a tick of campaign c that takes E0 to E2.
RetriedWithoutRecipient(E0, E2, c) ==
    /\ E2.campaigns[c].progress = E0.campaigns[c].progress
    /\ E2.messageHistory = E0.messageHistory
    /\ E2.inflight = E0.inflight
    /\ E2.campaignTimers[c] = "live"
    /\ E2.scheduled = {[campaign |-> c, delay |-> 30000]}

\* C13: in every reachable state, a tick of an active campaign that has no
\* eligible device (no ready device of the owner, or none inside the
\* configured subset) leaves sent, failed and next-index as they were, appends
\* no message record, starts no send and schedules one retry, 30 s later; and
\* createCampaign called when no device is eligible leaves the new campaign at
\* sent = 0, failed = 0, next-index = 0 with that retry scheduled.
C13_NoEligibleDeviceRetries ==
    /\ \A c \in inMap :
            (campaigns[c].status = "active" /\ NoEligibleDevice(campaigns[c]))
                => \A E0 \in TickEntries(c) : \A E2 \in ProcessCampaign(E0, c) :
                        RetriedWithoutRecipient(E0, E2, c)
    /\ \A c \in SpecCampaigns \ issuedCampaigns : \A data \in SubsetInputs :
            NoEligibleDevice(NewCampaign("u1", data))
                => \A E2 \in CreateCampaignCall(Engine, c, "u1", data) :
                        /\ E2.campaigns[c].progress =
                                [total |-> data.recipients, sent |-> 0, failed |-> 0,
                                 currentIndex |-> 0]
                        /\ E2.messageHistory = messageHistory
                        /\ E2.inflight = inflight
                        /\ E2.campaignTimers[c] = "live"
                        /\ E2.scheduled = {[campaign |-> c, delay |-> 30000]}

\* A campaign restricted to d2 has passed a recipient and waits on its timer
\* while d1 is ready and d2 is not: its next tick finds no eligible device.
C13_Witness ==
    \E c \in inMap :
        /\ campaigns[c].status = "active"
        /\ campaigns[c].options.selectedDevices.given
        /\ NoEligibleDevice(campaigns[c])
        /\ "d1" \in DOMAIN devices /\ devices["d1"].isReady
        /\ Progress(c).currentIndex = 1
        /\ Progress(c).currentIndex < Progress(c).total
        /\ campaignTimers[c] = "live"

\* Attempts made on recipient j of campaign c: the records of the owner's
\* history for it, and the ticks that await a send to it.
Attempts(c, j) ==
    RecordsFor(c, j)
        + BagCardinality([t \in {x \in BagToSet(inflight[c]) : x.ri = j} |-> inflight[c][t]])

FailedRecordFor(c, j) ==
    \E i \in 1..Len(messageHistory[campaigns[c].userId]) :
        LET r == messageHistory[campaigns[c].userId][i]
        IN r.campaignId = c /\ r.recipient = j /\ r.status = "failed"

\* The step of C14: the send a tick of an active campaign awaits fails.
FailureSettlesRecipient(c, tick) ==
    (c \in inMap /\ campaigns[c].status = "active" /\ SendFails(c, tick))
        => /\ c \in inMap'
           /\ campaigns'[c].progress.failed = campaigns[c].progress.failed + 1
           /\ campaigns'[c].progress.sent = campaigns[c].progress.sent
           /\ campaigns'[c].progress.currentIndex = campaigns[c].progress.currentIndex + 1
           /\ messageHistory' =
                [messageHistory EXCEPT ![campaigns[c].userId] =
                    Append(@, [userId |-> campaigns[c].userId, campaignId |-> c,
                               recipient |-> tick.ri, deviceId |-> NoDevice,
                               status |-> "failed", error |-> "error.message",
                               timestamp |-> Now(Engine)])]
           /\ IF campaigns'[c].progress.currentIndex >= campaigns'[c].progress.total
              THEN campaigns'[c].status = "completed"
              ELSE campaigns'[c].status = "active" /\ campaignTimers'[c] = "live"

NeverRestarted(c) == campaigns[c].startedAt = "unset"

C15_RecipientsInOrderNoneSkipped ==
    \A c \in inMap :
        /\ \A t \in BagToSet(inflight[c]) : t.ri = Progress(c).currentIndex
        /\ campaigns[c].status = "completed"
                => \A j \in 0..(campaigns[c].recipients - 1) : RecordsFor(c, j) >= 1

\* The campaign was loaded from disk (its createdAt is the stored string).
LoadedFromDisk(c) == campaigns[c].createdAt = "string"

\* The campaign was loaded from disk and restartCampaign has not been called
\* on it in this life of the process (startedAt is no Date object).
RecoveredRun(c) == LoadedFromDisk(c) /\ campaigns[c].startedAt # "Date"

\* A start of the process takes every stored campaign up at its persisted
\* next-index, with the stored history and no send in progress.
BootResumesAtPersistedIndex ==
    Reboot => \A c \in DOMAIN campaignsFile :
                /\ c \in inMap'
                /\ campaigns'[c].progress.currentIndex = campaignsFile[c].progress.currentIndex
                /\ inflight'[c] = EmptyBag
                /\ messageHistory' = messagesFile

\* In a step of the running process next-index of c is not lowered, and a send
\* that starts is to the recipient at next-index.
StepKeepsResumePoint(c) ==
    /\ campaigns'[c].progress.currentIndex >= campaigns[c].progress.currentIndex
    /\ \A t \in BagToSet(inflight'[c]) :
            CopiesIn(t, inflight'[c]) > CopiesIn(t, inflight[c])
                => t.ri = campaigns[c].progress.currentIndex

\* C16, as stated: a process start takes a stored campaign up at its persisted
\* next-index i, and from then on no send starts to a recipient below i: in
\* every later step of that process next-index is not lowered and a send that
\* starts is to the recipient at next-index.
C16_NeverSentAgainAfterRecovery ==
    [][/\ BootResumesAtPersistedIndex
       /\ \A c \in inMap \cap inMap' :
            (~Reboot /\ LoadedFromDisk(c)) => StepKeepsResumePoint(c)]_vars

\* C16, amended: the same, for as long as restartCampaign is not called on the
\* campaign.
C16_NotSentAgainUnlessRestarted ==
    [][/\ BootResumesAtPersistedIndex
       /\ \A c \in inMap \cap inMap' :
            (~Reboot /\ RecoveredRun(c) /\ RecoveredRun(c)') => StepKeepsResumePoint(c)]_vars

\* A campaign stored with next-index 1 of 2 recipients was taken up by a new
\* process, and its send to recipient 1 is in progress; recipient 0 keeps
\* its one record.
C16_Witness ==
    \E c \in inMap :
        /\ RecoveredRun(c)
        /\ Progress(c).currentIndex = 1
        /\ Progress(c).total = 2
        /\ RecordsFor(c, 0) = 1
        /\ \E t \in BagToSet(inflight[c]) : t.ri = 1

\* C17: in every reachable state, whatever the order of the transport's
\* events, the readiness flag of a device is true exactly when its status is
\* "ready".
C17_ReadyFlagIffStatusReady ==
    \A d \in DOMAIN devices : devices[d].isReady <=> devices[d].status = "ready"

\* C18: sendMessage on a device that is absent or whose status is not "ready"
\* throws the device-not-ready error, does not call the transport, and leaves
\* the device, its last-activity stamp and its inactivity timer as they were.
C18_SendOnNotReadyDeviceFails ==
    \A d \in Devices, sent \in BOOLEAN :
        ~(d \in DOMAIN devices /\ devices[d].status = "ready")
            => LET call == SendMessageCall(Registry, d, sent)
               IN  /\ call.error = NotReadyError
                   /\ ~call.transport
                   /\ ~call.stamped
                   /\ call.registry = Registry

\* C19: after deleteDevice the device is not in the map, no timer of it is
\* pending, and a second deleteDevice leaves the registry as the first left it.
C19_DeleteDeviceIdempotentAndComplete ==
    [][\A d \in Devices :
        DeleteDevice(d) => /\ d \notin DOMAIN devices'
                           /\ deviceTimers'[d] = {}
                           /\ DeletedDevice(Registry', d) = Registry']_vars

\* How often device d was selected.
TimesSelected(d) == Cardinality({i \in DOMAIN rotation.selected : rotation.selected[i] = d})

\* C20: after N consecutive round-robin selections from a list of k devices
\* each device of the list has been selected floor(N/k) or ceil(N/k) times,
\* and the cursor has advanced N times, whether the sends succeeded or failed.
C20_RoundRobinFairness ==
    rotation.devs # <<>> =>
        LET N == Len(rotation.selected)
            k == Len(rotation.devs)
        IN  /\ \A i \in DOMAIN rotation.devs :
                    TimesSelected(rotation.devs[i]) \in {N \div k, (N + k - 1) \div k}
            /\ \A i \in DOMAIN rotation.selected :
                    \E j \in DOMAIN rotation.devs : rotation.selected[i] = rotation.devs[j]
            /\ rotation.rs.deviceIndex = rotation.start + N

\* Five selections from a list of three devices, started at cursor 1; one
\* send succeeded and the others failed.
C20_Witness ==
    /\ Len(rotation.devs) = 3
    /\ rotation.start = 1
    /\ Len(rotation.selected) = 5
    /\ \E d \in RotationDevices :
            /\ MapGet(rotation.rs.deviceUsage.entries, d) = 1
            /\ \A x \in RotationDevices \ {d} : MapGet(rotation.rs.deviceUsage.entries, x) = 0

\* C21: the selections of a custom-count campaign with threshold T from a
\* fixed list of k >= 2 devices are runs of T times the same device; the first
\* run uses the device after the cursor's start (the second of the list), and
\* each run the device that follows the one before it, cyclically.
C21_CustomCountRuns ==
    rotation.messagesPerDevice > 0 =>
        LET T == rotation.messagesPerDevice
            k == Len(rotation.devs)
        IN  \A i \in DOMAIN rotation.selected :
                rotation.selected[i] = At(rotation.devs, (1 + (i - 1) \div T) % k)

\* Six selections with threshold 2 from a list of three devices: three full
\* runs, the last on the first device of the list.
C21_Witness ==
    /\ rotation.messagesPerDevice = 2
    /\ Len(rotation.devs) = 3
    /\ Len(rotation.selected) = 6
    /\ rotation.selected[6] = rotation.devs[1]

\* The successful sends campaign c has made through device d.
SentThrough(c, d) ==
    LET h == messageHistory[campaigns[c].userId]
    IN Cardinality({i \in 1..Len(h) : /\ h[i].campaignId = c
                                       /\ h[i].status = "sent"
                                       /\ h[i].deviceId = d})

\* The ticks of c that a step has started.
StartedTicks(c) ==
    {t \in BagToSet(inflight'[c]) : CopiesIn(t, inflight'[c]) > CopiesIn(t, inflight[c])}

\* C22: every tick of a load-balanced campaign selects the eligible device
\* through which the campaign has made the fewest successful sends, the first
\* such device of the list.
C22_LoadBalancedPicksLeastUsed ==
    [][\A c \in inMap \cap inMap' :
        campaigns[c].options.rotationStrategy = "load-balanced" =>
            \A t \in StartedTicks(c) :
                LET devs == EligibleDevices(campaigns[c])
                IN \E i \in DOMAIN devs :
                    /\ devs[i] = t.device
                    /\ \A j \in DOMAIN devs :
                            SentThrough(c, devs[i]) <= SentThrough(c, devs[j])
                    /\ \A j \in 1..(i - 1) :
                            SentThrough(c, devs[j]) > SentThrough(c, devs[i])]_vars

\* The usage counter of device d in the rotation state of campaign c.
UsageCounter(c, d) == MapGet(campaigns[c].rotationState.deviceUsage.entries, d)

RECURSIVE UsageSum(_, _)
UsageSum(c, ds) ==
    IF ds = {} THEN 0
    ELSE LET d == CHOOSE x \in ds : TRUE
         IN UsageCounter(c, d) + UsageSum(c, ds \ {d})

\* C23: a round-robin campaign with N recipients and k >= 1 ready devices
\* that stay ready, whose sends have all succeeded, is completed with sent = N
\* and failed = 0 once next-index has reached N; its usage counters then sum
\* to N, and the counter of each ready device is floor(N/k) or ceil(N/k).
C23_RoundRobinUsageAtCompletion ==
    \A c \in inMap :
        LET N == campaigns[c].recipients
            devs == GetReadyDevices(campaigns[c].userId)
            k == Len(devs)
        IN (/\ campaigns[c].options.rotationStrategy = "round-robin"
            /\ k >= 1
            /\ Progress(c).failed = 0
            /\ Progress(c).currentIndex = N)
            => /\ campaigns[c].status = "completed"
               /\ Progress(c).sent = N
               /\ UsageSum(c, Devices) = N
               /\ \A i \in DOMAIN devs :
                    UsageCounter(c, devs[i]) \in {N \div k, (N + k - 1) \div k}

\* The delays of the timers that the ticks of c now awaiting their send can
\* set when they resume, whether the send succeeded or failed.
TickDelays(c) ==
    LET ends == UNION {ResumeTick([Engine EXCEPT !.inflight[c] = @ (-) SetToBag({t})], c, t, ok) :
                        t \in BagToSet(inflight[c]), ok \in BOOLEAN}
    IN {s.delay : s \in UNION {E.scheduled : E \in ends}}

\* The range of a random policy.
PolicyRange(kind) ==
    CASE kind = "random-fast" -> FastMinDelay..FastMaxDelay
      [] kind = "random-normal" -> NormalMinDelay..NormalMaxDelay
      [] kind = "random-safe" -> SafeMinDelay..SafeMaxDelay

RandomPolicies == {"random-fast", "random-normal", "random-safe"}

\* C24: for a campaign with a random policy, every delay a tick can compute,
\* whatever Math.random() draws, is an integer of the policy's range: 2000 to
\* 5000 ms for random-fast, 5000 to 10000 for random-normal, 10000 to 20000
\* for random-safe.
C24_RandomDelayInRange ==
    \A c \in inMap :
        campaigns[c].options.delay.kind \in RandomPolicies
            => /\ CalculateMessageDelay(campaigns[c].options)
                    \subseteq PolicyRange(campaigns[c].options.delay.kind)
               /\ TickDelays(c) \subseteq PolicyRange(campaigns[c].options.delay.kind)

\* A random-safe campaign has a tick awaiting its send to the first of two
\* recipients; the delays it can set reach both ends of the range.
C24_Witness ==
    \E c \in inMap :
        /\ campaigns[c].options.delay.kind = "random-safe"
        /\ \E t \in BagToSet(inflight[c]) : t.ri + 1 < campaigns[c].recipients
        /\ {SafeMinDelay, SafeMaxDelay} \subseteq TickDelays(c)

\* C25: a campaign created with a fixed delay of d milliseconds, d >= 0 (0
\* included), waits d milliseconds between consecutive recipients: d is the one
\* delay its ticks compute.
C25_FixedDelayPassesThrough ==
    [][\A c \in SpecCampaigns, data \in DelayInputs :
        (data.delay.kind = "number" /\ CreateCampaign(c, "u1", data))
            => CalculateMessageDelay(campaigns'[c].options) = {data.delay.value}]_vars

\* The engine as a tick of campaign c started by a pending timer finds it.
TimedTickEntries(c) ==
    (IF campaignTimers[c] = "live"
     THEN {[Engine EXCEPT !.campaignTimers[c] = "dead"]} ELSE {})
        \cup (IF looseTimers[c] > 0
              THEN {[Engine EXCEPT !.looseTimers[c] = @ - 1]} ELSE {})

\* The tick of campaign c that takes E0 to E2 ended through the exception
\* handler of processCampaign: it set the 60 s retry.
EndedInHandler(E2, c) == [campaign |-> c, delay |-> RetryErrorDelay] \in E2.scheduled

\* C26: a tick that ends through the exception handler leaves sent, failed
\* and next-index as they were when it began and appends no message record
\* (the retry 60 s later is what marks the handler).
C26_ExceptionLeavesCountsAlone ==
    \A c \in inMap : \A E0 \in TimedTickEntries(c) : \A E2 \in ProcessCampaign(E0, c) :
        EndedInHandler(E2, c)
            => /\ E2.campaigns[c].progress = E0.campaigns[c].progress
               /\ E2.messageHistory = E0.messageHistory

\* The eligible devices of a campaign, as a set.
EligibleSet(campaign) ==
    LET devs == EligibleDevices(campaign) IN {devs[i] : i \in DOMAIN devs}

\* C27: a tick hands its recipient only to a device that is eligible when it
\* is selected (ready, of the owner, inside the configured subset), under
\* every rotation policy and whatever the readiness of the devices has done
\* between the ticks; so the first part of a tick, up to the send, records no
\* failed recipient: it leaves failed and the history as they were, and the
\* send it starts is on an eligible device.
C27_OnlyEligibleDevicesUsed ==
    \A c \in inMap : \A E0 \in TimedTickEntries(c) : \A E2 \in ProcessCampaign(E0, c) :
        /\ E2.campaigns[c].progress.failed = E0.campaigns[c].progress.failed
        /\ E2.messageHistory = E0.messageHistory
        /\ \A t \in BagToSet(E2.inflight[c]) :
                CopiesIn(t, E2.inflight[c]) > CopiesIn(t, E0.inflight[c])
                    => t.device \in EligibleSet(campaigns[c])

\* C28: a campaign that is never stopped and has an eligible device ready from
\* some point on (here: from the moment one is ready, since no device leaves
\* readiness) eventually is completed with next-index = total.
C28_EventuallyCompleted ==
    \A c \in SpecCampaigns :
        (c \in inMap /\ EligibleSet(campaigns[c]) # {})
            ~> (/\ c \in inMap
                /\ campaigns[c].status = "completed"
                /\ Progress(c).currentIndex = Progress(c).total)

\* Campaign c was loaded at boot as an active campaign with next-index i
\* below its total, and its owner has a ready device.
ResumableAt(c, i) ==
    /\ c \in inMap
    /\ RecoveredRun(c)
    /\ campaigns[c].status = "active"
    /\ Progress(c).currentIndex = i
    /\ i < campaigns[c].recipients
    /\ GetReadyDevices(campaigns[c].userId) # <<>>

\* A tick of c has taken the recipient at index i: its send is in progress,
\* or the recipient is settled and next-index has passed it.
Processed(c, i) ==
    /\ c \in inMap
    /\ \/ \E t \in BagToSet(inflight[c]) : t.ri = i
       \/ Progress(c).currentIndex > i

\* C29: a campaign stored as active with next-index i < total is resumed at
\* boot and, once its owner has a ready device again, eventually processes
\* the recipient at i; campaigns with an explicit device subset included.
C29_ResumedAfterBoot ==
    \A c \in SpecCampaigns : \A i \in 0..(MaxRecipients - 1) :
        ResumableAt(c, i) ~> Processed(c, i)

\* C30: whenever a tick timer of a campaign is pending, the progress stored
\* in campaigns.json is the progress in memory (so the stored next-index does
\* not trail the one in memory).
C30_PersistedBeforeNextTimer ==
    \A c \in inMap :
        PendingTimers(c) > 0
            => /\ c \in DOMAIN campaignsFile
               /\ campaignsFile[c].progress = campaigns[c].progress

\* C31: every disconnected event and every error event, of whatever class,
\* leaves a reclamation of the device pending; and once deleteDevice has been
\* called on the device, a reclamation or recreate still pending for it
\* changes nothing in the registry when it runs: no device deleted, none
\* created.
C31_ReclaimedUnlessDeleted ==
    [][\A d \in Devices :
        /\ (\/ DeviceDisconnected(d)
            \/ \E closed \in BOOLEAN : DeviceError(d, closed))
               => deviceTimers'[d] \cap {"reclaim", "error-recreate"} # {}
        /\ DeleteDevice(d)
               => \A kind \in deviceTimers'[d] \cap {"reclaim", "error-recreate"} :
                    \A n \in Devices \ issuedDevices :
                        AfterDeviceTimer([devices |-> devices', deviceTimers |-> deviceTimers'],
                                         d, kind, n).devices = devices'
      ]_vars

\* C32: automatic recovery never increases the number of devices a user has:
\* when a timer of a device runs (a recreate after a recoverable error or
\* after a failed QR rendering), no user has more devices after it than
\* before.
C32_RecoveryNeverAddsDevices ==
    [][\A d \in Devices, kind \in TimerKinds :
        DeviceTimerFires(d, kind)
            => \A u \in Users :
                Cardinality({x \in DOMAIN devices' : devices'[x].userId = u})
                    <= Cardinality({x \in DOMAIN devices : devices[x].userId = u})
      ]_vars

\* C33: a device has its inactivity timer pending exactly while it is in the
\* registry: from the moment it is stored until it is deleted.
C33_InactivityTimerWhileRegistered ==
    \A d \in Devices :
        d \in DOMAIN devices <=> "inactivity" \in deviceTimers[d]

\* C34: the expiry of a pairing token clears only the token it was set for:
\* when an expiry timer clears the token stored on a session, that token is
\* the one issued when the timer was set, never a newer one.
C34_ExpiryClearsOnlyItsToken ==
    [][QrExpiryFires =>
        LET timer == Head(sessions.qrTimers)
        IN  \A sid \in DOMAIN sessions.map :
                (/\ sessions.map[sid].qrCode # 0
                 /\ sid \in DOMAIN sessions'.map
                 /\ sessions'.map[sid].qrCode = 0)
                    => /\ timer.sid = sid
                       /\ timer.instance = sessions.map[sid].instance
                       /\ timer.token = sessions.map[sid].qrCode
      ]_vars

\* C40: the reclamation timed by a session's disconnected event deletes only
\* the session that was disconnected: a session made under the same id after
\* that one was deleted is still in the map when the old timer has run.
C40_ReclaimDeletesOnlyItsSession ==
    [][ReclaimFires =>
        LET timer == Head(sessions.reclaimTimers)
        IN  (/\ timer.sid \in DOMAIN sessions.map
             /\ sessions.map[timer.sid].instance # timer.instance)
                => timer.sid \in DOMAIN sessions'.map
      ]_vars

\* C35: message history is append-only: over every step each user's stored
\* history keeps the records it had, unaltered and in the same positions; a
\* step can only add records at the end.
C35_HistoryAppendOnly ==
    [][\A u \in Users :
        /\ Len(messageHistory'[u]) >= Len(messageHistory[u])
        /\ SubSeq(messageHistory'[u], 1, Len(messageHistory[u])) = messageHistory[u]
      ]_vars

\* C36: a stopped campaign leaves the status stopped only by restartCampaign:
\* every step that changes the status of a stopped campaign is a call of
\* restartCampaign on it; a tick that was awaiting its send when the campaign
\* was stopped does not make it completed.
C36_StoppedUntilRestarted ==
    [][\A c \in inMap \cap inMap' :
        (campaigns[c].status = "stopped" /\ campaigns'[c].status # "stopped")
            => \E u \in Users : RestartCampaign(c, u)
      ]_vars

\* C37: a campaign has at most one tick timer pending, and that timer is the
\* one campaignTimers holds for it: no tick timer is pending that the table
\* does not hold (so that clearing the table's timer cancels every pending
\* tick).
C37_OnlyTheRecordedTimerPending ==
    \A c \in CampaignIds :
        /\ PendingTimers(c) <= 1
        /\ looseTimers[c] = 0

\* C38: when createDevice fails because the transport could not be
\* initialized, the device it had stored is in the registry no longer when
\* the error reaches the caller.
C38_FailedDeviceCleanedUp ==
    [][\A d \in Devices : CreateDeviceFails(d) => d \notin DOMAIN devices']_vars

\* C39: every send of a campaign tick goes through a device of the campaign's
\* owner: the device a tick is sending through, and the device of every
\* stored record of a sent message, belongs to the campaign's owner, also
\* when the campaign's device subset names devices of another user.
C39_SendsThroughOwnersDevices ==
    /\ \A c \in inMap : \A tick \in BagToSet(inflight[c]) :
            /\ tick.device \in DOMAIN devices
            /\ devices[tick.device].userId = campaigns[c].userId
    /\ \A u \in Users : \A i \in DOMAIN messageHistory[u] :
            messageHistory[u][i].status = "sent"
                => /\ messageHistory[u][i].deviceId \in DOMAIN devices
                   /\ devices[messageHistory[u][i].deviceId].userId = u

\* A tick of a campaign whose subset names a ready device of another user is
\* sending.
C39_Witness ==
    \E c \in inMap :
        /\ campaigns[c].options.selectedDevices.given
        /\ \E d \in campaigns[c].options.selectedDevices.ids :
                /\ DeviceCanSend(d)
                /\ devices[d].userId # campaigns[c].userId
        /\ inflight[c] # EmptyBag

====
